---- MODULE Spec2Model ----
(***************************************************************************)
(* Engine Datalog Analyzer (src/Main.py): one Streamlit script run.        *)
(*                                                                         *)
(* Strings are sequences of one-character strings, so that lower(),        *)
(* replace(), strip(), title() and the substring tests of map_columns are  *)
(* computed character by character.  Numbers are fixed-point integers in   *)
(* units of 1/Scale, so that the factor 14.5038 is exact.                  *)
(***************************************************************************)
EXTENDS Integers, Sequences, FiniteSets, TLC

VARIABLES
    pc,                 \* position of the script run
    data,               \* the DataFrame read by pd.read_csv (line 99)
    column_mapping,     \* map_columns(data.columns) (line 107)
    missing_fields,     \* line 111
    data_standardized,  \* line 139
    wot_data,           \* lines 143 / 148, coerced at line 159
    defined,            \* the script's names that have been assigned
    errors,             \* the st.error messages shown, as <<line, text>>
    raised,             \* 0, or the line whose uncaught exception ended the run
    log_report,         \* the findings appended to log_report, in order
    summary             \* summary_data["Value"] (lines 452-461), <<>> until built

vars == <<pc, data, column_mapping, missing_fields, data_standardized, wot_data,
          defined, errors, raised, log_report, summary>>

(***************************************************************************)
(* Bounds of the model.                                                    *)
(***************************************************************************)
MaxCols == 3    \* columns of an uploaded table (header-rich uploads)
MaxRows == 3    \* rows of an uploaded table (data-rich uploads)

Scale == 10000  \* fixed-point unit: 14.5038 (line 62) has four decimals

(***************************************************************************)
(* Characters and strings.                                                 *)
(***************************************************************************)
UpperCase == <<"A","B","C","D","E","F","G","H","I","J","K","L","M","N","O","P","Q","R","S","T","U","V","W","X","Y","Z">>
LowerCase == <<"a","b","c","d","e","f","g","h","i","j","k","l","m","n","o","p","q","r","s","t","u","v","w","x","y","z">>

IsUpper(c) == \E i \in 1..Len(UpperCase) : UpperCase[i] = c
IsLower(c) == \E i \in 1..Len(LowerCase) : LowerCase[i] = c
IsAlpha(c) == IsUpper(c) \/ IsLower(c)

LowerChar(c) ==
    IF IsUpper(c) THEN LowerCase[CHOOSE i \in 1..Len(UpperCase) : UpperCase[i] = c] ELSE c
UpperChar(c) ==
    IF IsLower(c) THEN UpperCase[CHOOSE i \in 1..Len(LowerCase) : LowerCase[i] = c] ELSE c

\* str.lower()
Lower(s) == [i \in 1..Len(s) |-> LowerChar(s[i])]

\* str.upper()
Upper(s) == [i \in 1..Len(s) |-> UpperChar(s[i])]

\* str.title(): a letter that follows a non-letter is upper-cased, any other lower-cased
Title(s) ==
    [i \in 1..Len(s) |->
        IF i = 1 \/ ~IsAlpha(s[i-1]) THEN UpperChar(s[i]) ELSE LowerChar(s[i])]

\* str.replace(ch, rep) for a one-character pattern ch
RECURSIVE Replace(_, _, _)
Replace(s, ch, rep) ==
    IF s = <<>> THEN <<>>
    ELSE (IF Head(s) = ch THEN rep ELSE <<Head(s)>>) \o Replace(Tail(s), ch, rep)

\* sub in s
Contains(s, sub) ==
    \E i \in 0..(Len(s) - Len(sub)) : SubSeq(s, i + 1, i + Len(sub)) = sub

IsSpace(c) == c \in {" ", "\t"}

\* str.strip()
RECURSIVE LStrip(_)
LStrip(s) == IF s # <<>> /\ IsSpace(Head(s)) THEN LStrip(Tail(s)) ELSE s
RECURSIVE RStrip(_)
RStrip(s) ==
    IF s # <<>> /\ IsSpace(s[Len(s)]) THEN RStrip(SubSeq(s, 1, Len(s) - 1)) ELSE s
Strip(s) == RStrip(LStrip(s))

\* sep.join(parts)
RECURSIVE Join(_, _)
Join(sep, parts) ==
    IF parts = <<>> THEN <<>>
    ELSE IF Len(parts) = 1 THEN parts[1]
    ELSE parts[1] \o sep \o Join(sep, Tail(parts))

(***************************************************************************)
(* map_columns (lines 8-39).                                               *)
(***************************************************************************)
None == <<"None">>          \* Python's None: no string of characters equals it

Truthy(col) == col # None /\ col # <<>>     \* `if col:`

\* the keys of the mapping dict, in insertion order (lines 9-18)
KeyOrder ==
    << "time", "accelerator_position", "boost_pressure", "target_rail_pressure",
       "engine_rpm", "ignition_timing", "fuel_rail_pressure_bar",
       "wastegate_valve_position" >>
Keys == {KeyOrder[i] : i \in 1..Len(KeyOrder)}

KeyChars(key) ==
    CASE key = "time" -> <<"t","i","m","e">>
      [] key = "accelerator_position" -> <<"a","c","c","e","l","e","r","a","t","o","r","_","p","o","s","i","t","i","o","n">>
      [] key = "boost_pressure" -> <<"b","o","o","s","t","_","p","r","e","s","s","u","r","e">>
      [] key = "target_rail_pressure" -> <<"t","a","r","g","e","t","_","r","a","i","l","_","p","r","e","s","s","u","r","e">>
      [] key = "engine_rpm" -> <<"e","n","g","i","n","e","_","r","p","m">>
      [] key = "ignition_timing" -> <<"i","g","n","i","t","i","o","n","_","t","i","m","i","n","g">>
      [] key = "fuel_rail_pressure_bar" -> <<"f","u","e","l","_","r","a","i","l","_","p","r","e","s","s","u","r","e","_","b","a","r">>
      [] key = "wastegate_valve_position" -> <<"w","a","s","t","e","g","a","t","e","_","v","a","l","v","e","_","p","o","s","i","t","i","o","n">>

KW_time == <<"t","i","m","e">>
KW_accelerator == <<"a","c","c","e","l","e","r","a","t","o","r">>
KW_position == <<"p","o","s","i","t","i","o","n">>
KW_boost == <<"b","o","o","s","t">>
KW_pressure == <<"p","r","e","s","s","u","r","e">>
KW_targetrail == <<"t","a","r","g","e","t","r","a","i","l">>
KW_targetrailpressure == <<"t","a","r","g","e","t","r","a","i","l","p","r","e","s","s","u","r","e">>
KW_targetrailpress == <<"t","a","r","g","e","t","r","a","i","l","p","r","e","s","s">>
KW_rpm == <<"r","p","m">>
KW_enginerpm == <<"e","n","g","i","n","e","r","p","m">>
KW_ignition == <<"i","g","n","i","t","i","o","n">>
KW_timing == <<"t","i","m","i","n","g">>
KW_timingdeg == <<"t","i","m","i","n","g","d","e","g">>
KW_fuelrail == <<"f","u","e","l","r","a","i","l">>
KW_wastegate == <<"w","a","s","t","e","g","a","t","e">>
KW_percent == <<"p","e","r","c","e","n","t">>

\* line 21 without .lower(): a mapper that matches case-sensitively
col_clean_CaseSensitive(col) ==
    Replace(Replace(Replace(Replace(Replace(col,
        " ", <<>>), "(", <<>>), ")", <<>>), "%", KW_percent), "_", <<>>)

\* line 21
col_clean(col) ==
    Replace(Replace(Replace(Replace(Replace(Lower(col),
        " ", <<>>), "(", <<>>), ")", <<>>), "%", KW_percent), "_", <<>>)

\* the if/elif chain of lines 22-37: the key the header is assigned to, or "none"
KeyOf(col) ==
    LET c == col_clean(col) IN
    IF Contains(c, KW_time) THEN "time"
    ELSE IF Contains(c, KW_accelerator) /\ Contains(c, KW_position) THEN "accelerator_position"
    ELSE IF Contains(c, KW_boost) /\ Contains(c, KW_pressure) THEN "boost_pressure"
    ELSE IF Contains(c, KW_targetrail) \/ Contains(c, KW_targetrailpressure)
            \/ Contains(c, KW_targetrailpress) THEN "target_rail_pressure"
    ELSE IF Contains(c, KW_rpm) \/ Contains(c, KW_enginerpm) THEN "engine_rpm"
    ELSE IF (Contains(c, KW_ignition) /\ Contains(c, KW_timing))
            \/ Contains(c, KW_timingdeg) THEN "ignition_timing"
    ELSE IF Contains(c, KW_fuelrail) /\ Contains(c, KW_pressure) THEN "fuel_rail_pressure_bar"
    ELSE IF Contains(c, KW_wastegate) /\ Contains(c, KW_position) THEN "wastegate_valve_position"
    ELSE "none"

\* one iteration of the loop of line 20: mapping[key] = col overwrites
MapStep(mapping, col) ==
    LET key == KeyOf(col) IN
    IF key = "none" THEN mapping ELSE [mapping EXCEPT ![key] = col]

RECURSIVE MapLoop(_, _)
MapLoop(mapping, columns) ==
    IF columns = <<>> THEN mapping
    ELSE MapLoop(MapStep(mapping, Head(columns)), Tail(columns))

map_columns(columns) == MapLoop([key \in Keys |-> None], columns)

(***************************************************************************)
(* DataFrames.  A frame is its columns (name and cells, in order) and its  *)
(* index (the row labels read_csv assigns, 0..n-1; a row filter keeps the  *)
(* labels of the rows it keeps).  A cell is a number, NaN or a text.       *)
(***************************************************************************)
Num(v) == [kind |-> "num", val |-> v]
NaN    == [kind |-> "nan", val |-> 0]
Txt    == [kind |-> "txt", val |-> 0]

NoFrame == [cols |-> <<>>, index |-> <<>>]

ColumnNames(df) == [i \in 1..Len(df.cols) |-> df.cols[i].name]
HasColumn(df, name) == \E i \in 1..Len(df.cols) : df.cols[i].name = name
Positions(df, name) == {i \in 1..Len(df.cols) : df.cols[i].name = name}
NRows(df) == Len(df.index)

\* df[name] when exactly one column has that name
Column(df, name) == df.cols[CHOOSE i \in 1..Len(df.cols) : df.cols[i].name = name].cells

\* a column read from CSV holding any text is of dtype object
IsObject(cells) == \E r \in 1..Len(cells) : cells[r].kind = "txt"

(***************************************************************************)
(* Standardized names (lines 119-124, 133-138) and the literals the script *)
(* tests columns against.                                                  *)
(***************************************************************************)
N_Time == <<"T","i","m","e">>
N_AcceleratorPosition == <<"A","c","c","e","l","e","r","a","t","o","r"," ","P","o","s","i","t","i","o","n">>
N_BoostPressure == <<"B","o","o","s","t"," ","P","r","e","s","s","u","r","e">>
N_TargetRailPressure == <<"T","a","r","g","e","t"," ","R","a","i","l"," ","P","r","e","s","s","u","r","e">>
N_IgnitionTiming == <<"I","g","n","i","t","i","o","n"," ","T","i","m","i","n","g">>
N_FuelRailPressurePsi == <<"F","u","e","l"," ","R","a","i","l"," ","P","r","e","s","s","u","r","e"," ","(","p","s","i",")">>
N_WastegateValvePosition == <<"W","a","s","t","e","g","a","t","e"," ","V","a","l","v","e"," ","P","o","s","i","t","i","o","n">>

\* key.replace("_", " ").title()
HumanName(key) == Title(Replace(KeyChars(key), "_", <<" ">>))

\* a renaming that leaves out .title()
StandardName_Untitled(key) ==
    IF key = "fuel_rail_pressure_bar" THEN N_FuelRailPressurePsi
    ELSE Replace(KeyChars(key), "_", <<" ">>)

\* lines 135-138: the name a mapped key's column is renamed to
StandardName(key) ==
    IF key = "fuel_rail_pressure_bar" THEN N_FuelRailPressurePsi ELSE HumanName(key)

\* a gate that takes only "time" for essential
essential_fields_TimeOnly == {"time"}

\* line 110
essential_fields == {"time", "boost_pressure"}

\* line 111: the unmapped essential keys, in the mapping's order, in readable form
MissingFields(mapping) ==
    LET miss == SelectSeq(KeyOrder,
                    LAMBDA key : mapping[key] = None /\ key \in essential_fields)
    IN [i \in 1..Len(miss) |-> HumanName(miss[i])]

\* line 114: ', '.join(missing_fields)
MissingMessage(missing) == Join(<<",", " ">>, missing)

(***************************************************************************)
(* The uploads the model draws from.                                       *)
(***************************************************************************)
H_Time == <<"T","i","m","e">>
H_TimeSp == <<" ","T","i","m","e">>
H_TimeS == <<"T","i","m","e"," ","(","s",")">>
H_Boost == <<"B","o","o","s","t"," ","P","r","e","s","s","u","r","e">>
H_BoostU == <<"b","o","o","s","t","_","p","r","e","s","s","u","r","e">>
H_Accel == <<"A","c","c","e","l","e","r","a","t","o","r"," ","P","o","s","i","t","i","o","n"," ","(","%",")">>
H_Target == <<"T","a","r","g","e","t"," ","R","a","i","l"," ","P","r","e","s","s","u","r","e">>
H_RPM == <<"E","n","g","i","n","e"," ","R","P","M">>
H_Ign == <<"I","g","n","i","t","i","o","n"," ","T","i","m","i","n","g"," ","(","D","E","G",")">>
H_Fuel == <<"F","u","e","l"," ","R","a","i","l"," ","P","r","e","s","s","u","r","e"," ","(","b","a","r",")">>
H_FuelPsi == <<"F","u","e","l"," ","R","a","i","l"," ","P","r","e","s","s","u","r","e"," ","(","p","s","i",")">>
H_WG == <<"W","a","s","t","e","g","a","t","e"," ","V","a","l","v","e"," ","P","o","s","i","t","i","o","n"," ","(","%",")">>
H_Lambda == <<"L","a","m","b","d","a">>

HeaderVocab ==
    { H_Time, H_TimeSp, H_TimeS, H_Boost, H_BoostU, H_Accel, H_Target,
      H_Fuel, H_FuelPsi, H_WG, H_Lambda }

\* read_csv renames a repeated header (X, X.1, ...), so the headers of a parsed
\* file are pairwise distinct before they are stripped
DistinctSeqs(S, n) ==
    {hs \in [1..n -> S] : \A i, j \in 1..n : i # j => hs[i] # hs[j]}

HeaderSeqs == UNION {DistinctSeqs(HeaderVocab, n) : n \in 1..MaxCols}

\* the variants of "Boost Pressure": leading blank, letter case, separator,
\* parenthesized unit, trailing blank
BoostWord == <<"b","o","o","s","t">>
PressureWord == <<"p","r","e","s","s","u","r","e">>
Blanks == {<<>>, <<" ">>}
Separators == {<<" ">>, <<"_">>, <<>>}
UnitSuffixes ==
    { <<>>, <<" ","(","p","s","i",")">>, <<"(","k","P","a",")">>, <<" ","(","B","A","R",")">> }
BoostCasings(sep) ==
    LET w == BoostWord \o sep \o PressureWord IN {w, Upper(w), Title(w)}
BoostVariants ==
    { lead \o body \o unit \o trail :
        lead \in Blanks, body \in UNION {BoostCasings(sep) : sep \in Separators},
        unit \in UnitSuffixes, trail \in Blanks }
StrippedBoostVariants == {Strip(h) : h \in BoostVariants}

VariantHeaderSeqs ==
    {<<H_Time, h>> : h \in BoostVariants} \cup {<<h, H_Time>> : h \in BoostVariants}

\* the cells of the header-rich uploads: two rows, 95 and 96 in every column
DefaultCells == << Num(95 * Scale), Num(96 * Scale) >>
DefaultFrame(hs) ==
    [cols  |-> [c \in 1..Len(hs) |-> [name |-> hs[c], cells |-> DefaultCells]],
     index |-> <<0, 1>>]

\* the data-rich uploads: Time, Boost Pressure and one more channel
DataHeaderSeqs == { <<H_Time, H_Boost>>, <<H_Time, H_Boost, H_Accel>> }
\* and one-row uploads with other channels, whose cell may be a text or empty
OneRowHeaderSeqs ==
    { <<H_Time, H_Boost, H_Fuel>>, <<H_Time, H_Boost, H_FuelPsi>>,
      <<H_Time, H_Boost, H_Ign>>, <<H_Time, H_Boost, H_RPM>>,
      <<H_Time, H_Boost, H_Fuel, H_Target>>, <<H_Time, H_Boost, H_FuelPsi, H_Target>> }
TimeCells == {Num(1 * Scale), Num(2 * Scale)}
BoostCells == {Num(10 * Scale)}
ThirdCells == {Num(95 * Scale), Num(96 * Scale), NaN, Txt}
CellDomain(c) == IF c = 1 THEN TimeCells ELSE IF c = 2 THEN BoostCells ELSE ThirdCells

AllCells == TimeCells \cup BoostCells \cup ThirdCells
RowDomain(hs) ==
    {row \in [1..Len(hs) -> AllCells] : \A c \in 1..Len(hs) : row[c] \in CellDomain(c)}

FramesOfRows(hs, n) ==
    { [cols  |-> [c \in 1..Len(hs) |->
                    [name |-> hs[c], cells |-> [r \in 1..n |-> rows[r][c]]]],
       index |-> [r \in 1..n |-> r - 1]] :
      rows \in [1..n -> RowDomain(hs)] }

DataFrames(hs) == UNION {FramesOfRows(hs, n) : n \in 0..MaxRows}

\* every parsed file the model uploads
Uploads ==
    {DefaultFrame(hs) : hs \in HeaderSeqs \cup VariantHeaderSeqs}
    \cup UNION {DataFrames(hs) : hs \in DataHeaderSeqs}
    \cup UNION {FramesOfRows(hs, 1) : hs \in OneRowHeaderSeqs}

(***************************************************************************)
(* Frame operations used by the script.                                    *)
(***************************************************************************)
\* df[name] = cells: every column of that name is set, or a new last column is added
SetColumn(df, name, cells) ==
    IF HasColumn(df, name)
    THEN [df EXCEPT !.cols = [i \in 1..Len(df.cols) |->
                                IF df.cols[i].name = name
                                THEN [name |-> name, cells |-> cells] ELSE df.cols[i]]]
    ELSE [df EXCEPT !.cols = Append(df.cols, [name |-> name, cells |-> cells])]

\* df[mask]: the rows whose mask is true, with their labels, in order
RECURSIVE KeepIdx(_, _)
KeepIdx(mask, r) ==
    IF r > Len(mask) THEN <<>>
    ELSE (IF mask[r] THEN <<r>> ELSE <<>>) \o KeepIdx(mask, r + 1)

FilterRows(df, mask) ==
    LET keep == KeepIdx(mask, 1) IN
    [cols  |-> [i \in 1..Len(df.cols) |->
                  [name  |-> df.cols[i].name,
                   cells |-> [k \in 1..Len(keep) |-> df.cols[i].cells[keep[k]]]]],
     index |-> [k \in 1..Len(keep) |-> df.index[keep[k]]]]

\* series > threshold, elementwise; NaN compares false
GreaterThan(cells, threshold) ==
    [r \in 1..Len(cells) |-> cells[r].kind = "num" /\ cells[r].val > threshold]

PsiPerBar == 145038     \* 14.5038 in units of 1/Scale (line 62)

\* v * 14.5038 in fixed point, (v * PsiPerBar) \div Scale, computed on the whole and
\* the fractional part of v so that no product leaves 32 bits
TimesPsiPerBar(v) ==
    (v \div Scale) * PsiPerBar + ((v % Scale) * PsiPerBar) \div Scale

\* lines 61-62
convert_bar_to_psi(cells) ==
    [r \in 1..Len(cells) |->
        IF cells[r].kind = "num" THEN Num(TimesPsiPerBar(cells[r].val)) ELSE NaN]

\* lines 132-138: the (col, new name) items of standardized_columns, in key order
StandardizedColumns(mapping) ==
    LET mapped == SelectSeq(KeyOrder, LAMBDA key : Truthy(mapping[key]))
    IN [i \in 1..Len(mapped) |-> <<mapping[mapped[i]], StandardName(mapped[i])>>]

\* dict lookup with default: the last item set for the name wins
RenameOf(items, name) ==
    LET hits == {i \in 1..Len(items) : items[i][1] = name} IN
    IF hits = {} THEN name
    ELSE items[CHOOSE i \in hits : \A j \in hits : j <= i][2]

\* line 139: data.rename(columns=standardized_columns)
Rename(df, items) ==
    [df EXCEPT !.cols = [i \in 1..Len(df.cols) |->
                            [name |-> RenameOf(items, df.cols[i].name),
                             cells |-> df.cols[i].cells]]]

\* a selector that also keeps the rows at exactly the threshold
WotMask_Inclusive(cells) ==
    [r \in 1..Len(cells) |-> cells[r].kind = "num" /\ cells[r].val >= 95 * Scale]

\* line 143: data_standardized["Accelerator Position"] > 95
WotMask(cells) == GreaterThan(cells, 95 * Scale)

\* pd.to_numeric(series, errors='coerce'): a text that is no number becomes NaN
ToNumeric(cells) ==
    [r \in 1..Len(cells) |-> IF cells[r].kind = "txt" THEN NaN ELSE cells[r]]

\* line 157
NumericColumns(df) == SelectSeq(ColumnNames(df), LAMBDA name : name # N_Time)

\* lines 158-159: wot_data[col] is a DataFrame when the name is repeated, and
\* pd.to_numeric raises TypeError on it; the columns before it are already coerced
RECURSIVE CoerceLoop(_, _)
CoerceLoop(df, names) ==
    IF names = <<>> THEN [df |-> df, ok |-> TRUE]
    ELSE IF Cardinality(Positions(df, Head(names))) > 1 THEN [df |-> df, ok |-> FALSE]
    ELSE CoerceLoop(SetColumn(df, Head(names), ToNumeric(Column(df, Head(names)))),
                    Tail(names))

(***************************************************************************)
(* The script run, up to the log report.                                   *)
(***************************************************************************)
Init ==
    /\ pc = "idle"
    /\ data = NoFrame
    /\ column_mapping = [key \in Keys |-> None]
    /\ missing_fields = <<>>
    /\ data_standardized = NoFrame
    /\ wot_data = NoFrame
    /\ defined = {}
    /\ errors = <<>>
    /\ raised = 0
    /\ log_report = <<>>
    /\ summary = <<>>

\* the exception raised at `line` is caught nowhere: the script run ends there
Raise(line) ==
    /\ pc' = "aborted"
    /\ raised' = line

\* lines 95-99: a file is uploaded and pd.read_csv parses it
Upload ==
    /\ pc = "idle"
    /\ \E df \in Uploads : data' = df
    /\ pc' = "loaded"
    /\ defined' = defined \cup {"data"}
    /\ UNCHANGED <<column_mapping, missing_fields, data_standardized, wot_data,
                   errors, raised, log_report, summary>>

\* lines 100-101: pd.read_csv raises on a file it cannot parse
ReadError ==
    /\ pc = "idle"
    /\ pc' = "read_error"
    /\ errors' = Append(errors, [line |-> 101, text |-> <<>>])
    /\ UNCHANGED <<data, column_mapping, missing_fields, data_standardized, wot_data,
                   defined, raised, log_report, summary>>

\* lines 104-111: strip the headers, map them, list the missing essential fields
MapColumns ==
    /\ pc = "loaded"
    /\ LET stripped == [data EXCEPT !.cols =
                           [i \in 1..Len(data.cols) |->
                               [name |-> Strip(data.cols[i].name),
                                cells |-> data.cols[i].cells]]]
           mapping == map_columns(ColumnNames(stripped))
       IN /\ data' = stripped
          /\ column_mapping' = mapping
          /\ missing_fields' = MissingFields(mapping)
    /\ pc' = "mapped"
    /\ defined' = defined \cup {"column_mapping", "missing_fields"}
    /\ UNCHANGED <<data_standardized, wot_data, errors, raised, log_report, summary>>

\* lines 113-125: the essential-column gate
EssentialGate ==
    /\ pc = "mapped"
    /\ IF missing_fields # <<>>
       THEN /\ errors' = Append(errors,
                            [line |-> 114, text |-> MissingMessage(missing_fields)])
            /\ pc' = "missing_essential"
       ELSE /\ errors' = errors
            /\ pc' = "convert"
    /\ UNCHANGED <<data, column_mapping, missing_fields, data_standardized, wot_data,
                   defined, raised, log_report, summary>>

\* lines 127-129: data["Fuel Rail Pressure (psi)"] = convert_bar_to_psi(...).
\* Multiplying a column of texts by a float raises TypeError; a repeated source
\* name makes the right-hand side a two-column frame, which cannot be set to one
\* column (ValueError).
ConvertFuel ==
    /\ pc = "convert"
    /\ LET col == column_mapping["fuel_rail_pressure_bar"] IN
       IF ~Truthy(col)
       THEN /\ pc' = "standardize"
            /\ UNCHANGED <<data, raised>>
       ELSE IF Cardinality(Positions(data, col)) > 1 \/ IsObject(Column(data, col))
       THEN /\ Raise(129)
            /\ UNCHANGED data
       ELSE /\ data' = SetColumn(data, N_FuelRailPressurePsi,
                                 convert_bar_to_psi(Column(data, col)))
            /\ pc' = "standardize"
            /\ UNCHANGED raised
    /\ UNCHANGED <<column_mapping, missing_fields, data_standardized, wot_data,
                   defined, errors, log_report, summary>>

\* lines 131-139: rename the mapped columns to their standardized names
Standardize ==
    /\ pc = "standardize"
    /\ data_standardized' = Rename(data, StandardizedColumns(column_mapping))
    /\ defined' = defined \cup {"data_standardized"}
    /\ pc' = "select"
    /\ UNCHANGED <<data, column_mapping, missing_fields, wot_data, errors, raised,
                   log_report, summary>>

\* lines 141-150: the wide-open-throttle rows, or the whole table.
\* With the name repeated, data_standardized["Accelerator Position"] is a frame
\* and indexing by the boolean frame raises ValueError (duplicate labels); a
\* column of texts compared with 95 raises TypeError.
SelectWindow ==
    /\ pc = "select"
    /\ IF HasColumn(data_standardized, N_AcceleratorPosition)
       THEN IF \/ Cardinality(Positions(data_standardized, N_AcceleratorPosition)) > 1
               \/ IsObject(Column(data_standardized, N_AcceleratorPosition))
            THEN /\ Raise(143)
                 /\ UNCHANGED <<wot_data, defined>>
            ELSE /\ wot_data' = FilterRows(data_standardized,
                                    WotMask(Column(data_standardized, N_AcceleratorPosition)))
                 /\ defined' = defined \cup {"wot_data"}
                 /\ pc' = "time_gate"
                 /\ UNCHANGED raised
       ELSE /\ wot_data' = data_standardized
            /\ defined' = defined \cup {"wot_data"}
            /\ pc' = "time_gate"
            /\ UNCHANGED raised
    /\ UNCHANGED <<data, column_mapping, missing_fields, data_standardized, errors,
                   log_report, summary>>

\* lines 152-155: the Time gate
TimeGate ==
    /\ pc = "time_gate"
    /\ IF ~HasColumn(wot_data, N_Time)
       THEN /\ errors' = Append(errors, [line |-> 154, text |-> <<>>])
            /\ pc' = "time_missing"
       ELSE /\ errors' = errors
            /\ pc' = "coerce"
    /\ UNCHANGED <<data, column_mapping, missing_fields, data_standardized, wot_data,
                   defined, raised, log_report, summary>>

\* lines 156-159: every column but Time is coerced to numbers
CoerceNumeric ==
    /\ pc = "coerce"
    /\ LET res == CoerceLoop(wot_data, NumericColumns(wot_data)) IN
       /\ wot_data' = res.df
       /\ IF res.ok
          THEN pc' = "info" /\ UNCHANGED raised
          ELSE Raise(159)
    /\ UNCHANGED <<data, column_mapping, missing_fields, data_standardized, defined,
                   errors, log_report, summary>>

\* lines 161-166: `buffer = io.StringIO()`; the script imports streamlit, pandas,
\* plotly and numpy (lines 1-5) and never io, so line 163 raises NameError
DataFrameInfo ==
    /\ pc = "info"
    /\ Raise(163)
    /\ UNCHANGED <<data, column_mapping, missing_fields, data_standardized, wot_data,
                   defined, errors, log_report, summary>>

Next ==
    \/ Upload
    \/ ReadError
    \/ MapColumns
    \/ EssentialGate
    \/ ConvertFuel
    \/ Standardize
    \/ SelectWindow
    \/ TimeGate
    \/ CoerceNumeric
    \/ DataFrameInfo

Spec == Init /\ [][Next]_vars

(***************************************************************************)
(* Series operations of the log report (pandas, NaN skipped or propagated  *)
(* as pandas does).                                                        *)
(***************************************************************************)
IsNum(c) == c.kind = "num"
ValidRows(cells) == {r \in 1..Len(cells) : IsNum(cells[r])}

\* Series.max(): NaN when no cell is a number
SeriesMax(cells) ==
    IF ValidRows(cells) = {} THEN NaN
    ELSE cells[CHOOSE r \in ValidRows(cells) :
                  \A q \in ValidRows(cells) : cells[q].val <= cells[r].val]

\* Series.idxmax(): the first row holding the maximum; 0 stands for the exception
\* it raises on an empty or all-NaN series
IdxMax(cells) ==
    IF ValidRows(cells) = {} THEN 0
    ELSE CHOOSE r \in ValidRows(cells) :
            /\ \A q \in ValidRows(cells) : cells[q].val <= cells[r].val
            /\ \A q \in ValidRows(cells) : cells[q].val = cells[r].val => r <= q

\* Series.diff(): NaN in the first row and wherever either operand is NaN
Diff(cells) ==
    [r \in 1..Len(cells) |->
        IF r > 1 /\ IsNum(cells[r]) /\ IsNum(cells[r-1])
        THEN Num(cells[r].val - cells[r-1].val) ELSE NaN]

\* a - b elementwise
Minus(a, b) ==
    [r \in 1..Len(a) |->
        IF IsNum(a[r]) /\ IsNum(b[r]) THEN Num(a[r].val - b[r].val) ELSE NaN]

\* abs(), elementwise
Abs(cells) ==
    [r \in 1..Len(cells) |->
        IF IsNum(cells[r]) /\ cells[r].val < 0 THEN Num(0 - cells[r].val) ELSE cells[r]]

LessThan(cells, threshold) ==
    [r \in 1..Len(cells) |-> IsNum(cells[r]) /\ cells[r].val < threshold]

EqualTo(cells, value) ==
    [r \in 1..Len(cells) |-> IsNum(cells[r]) /\ cells[r].val = value]

RECURSIVE SumSeq(_)
SumSeq(xs) == IF xs = <<>> THEN 0 ELSE Head(xs) + SumSeq(Tail(xs))

\* the largest s in lo..hi-1 with s * s * den <= num, by bisection
RECURSIVE IsqrtIn(_, _, _, _)
IsqrtIn(lo, hi, num, den) ==
    IF hi - lo <= 1 THEN lo
    ELSE LET mid == (lo + hi) \div 2 IN
         IF mid * mid * den <= num THEN IsqrtIn(mid, hi, num, den)
         ELSE IsqrtIn(lo, mid, num, den)

StdLimit == 4096    \* above every standard deviation of the model, in hundredths

StdUnit == 100   \* the standard deviation is computed in hundredths

\* Series.std(): the sample standard deviation (ddof = 1) of the numbers, NaN when
\* fewer than two; rounded down to a multiple of 0.01, which leaves its comparison
\* with a whole threshold exact for cells that are multiples of 0.01
SeriesStd(cells) ==
    LET valid == SelectSeq(cells, IsNum)
        xs    == [i \in 1..Len(valid) |-> valid[i].val \div StdUnit]
        n     == Len(xs)
        sum   == SumSeq(xs)
        sumsq == SumSeq([i \in 1..n |-> xs[i] * xs[i]])
    IN IF n < 2 THEN NaN
       ELSE Num(IsqrtIn(0, StdLimit, n * sumsq - sum * sum, n * (n - 1)) * StdUnit)

\* a bucket mapping whose thresholds belong to the smoother bucket (<=)
get_smoothness_score_Inclusive(std_dev, data_type) ==
    IF data_type \in {"boost", "timing"}
    THEN IF IsNum(std_dev) /\ std_dev.val <= 1 * Scale THEN "Very Smooth"
         ELSE IF IsNum(std_dev) /\ std_dev.val <= 3 * Scale THEN "Smooth"
         ELSE IF IsNum(std_dev) /\ std_dev.val <= 5 * Scale THEN "Somewhat Smooth"
         ELSE "Not Smooth"
    ELSE "N/A"

\* lines 65-89: both data types use the same thresholds; NaN compares false
get_smoothness_score(std_dev, data_type) ==
    IF data_type \in {"boost", "timing"}
    THEN IF IsNum(std_dev) /\ std_dev.val < 1 * Scale THEN "Very Smooth"
         ELSE IF IsNum(std_dev) /\ std_dev.val < 3 * Scale THEN "Smooth"
         ELSE IF IsNum(std_dev) /\ std_dev.val < 5 * Scale THEN "Somewhat Smooth"
         ELSE "Not Smooth"
    ELSE "N/A"

\* df["Time"].tolist()
Times(df) == Column(df, N_Time)

\* wot_data.loc[label, "Time"] for the label of row r
TimeAt(df, r) == Column(df, N_Time)[r]

(***************************************************************************)
(* The log report (lines 233-437): one entry per `log_report +=`.          *)
(***************************************************************************)
Entry(label, outcome, text, values) ==
    [label |-> label, outcome |-> outcome, text |-> text, values |-> values]

NotAvailable(label) == Entry(label, "not_available", "Not available.", <<>>)
AnalysisError(label) == Entry(label, "error", "Analysis Error", <<>>)

\* a fluctuation detector that compares with >= 3
BoostFluctuationMask_Inclusive(cells) ==
    [r \in 1..Len(cells) |->
        IsNum(Abs(Diff(cells))[r]) /\ Abs(Diff(cells))[r].val >= 3 * Scale]

\* line 324: wot_data["Boost Pressure"].diff().abs() > 3
BoostFluctuationMask(cells) == GreaterThan(Abs(Diff(cells)), 3 * Scale)

\* lines 291-294: abs(fuel - target) > 50
FuelPressureMask(fuel, target) == GreaterThan(Abs(Minus(fuel, target)), 50 * Scale)

\* line 354
NegativeTimingMask(cells) == LessThan(cells, 0)

\* a wastegate detector that flags every position below 1
WastegateZeroMask_BelowOne(cells) == LessThan(cells, 1 * Scale)

\* line 385
WastegateZeroMask(cells) == EqualTo(cells, 0)

\* line 409
WastegateFluctuationMask(cells) == GreaterThan(Abs(Diff(cells)), 5 * Scale)

\* the if/else of a rule detector: the flagged rows' times, or no issue
RuleEntry(label, flagged, noIssueText) ==
    IF NRows(flagged) > 0
    THEN Entry(label, "detected", "Detected", Times(flagged))
    ELSE Entry(label, "no_issue", noIssueText, <<>>)

\* what a report section leaves alone
ReportFrame ==
    UNCHANGED <<data, column_mapping, missing_fields, data_standardized, wot_data,
                errors, raised, summary>>

\* lines 239-253 (data_type 'boost') and 272-286 (data_type 'timing'): the peak
\* and its time, then the smoothness; idxmax raising leaves the smoothness unset
PeakSection(name, label, peakLabel, smoothLabel, data_type, here, next) ==
    /\ pc = here
    /\ IF HasColumn(wot_data, name)
       THEN LET cells == Column(wot_data, name) IN
            IF IdxMax(cells) = 0
            THEN /\ log_report' = Append(log_report, AnalysisError(label))
                 /\ defined' = defined \cup {"peak_" \o data_type}
            ELSE /\ log_report' = log_report \o
                       << Entry(peakLabel, "value", "peak",
                                <<SeriesMax(cells), TimeAt(wot_data, IdxMax(cells))>>),
                          Entry(smoothLabel, "value",
                                get_smoothness_score(SeriesStd(cells), data_type),
                                <<SeriesStd(cells)>>) >>
                 /\ defined' = defined \cup {"peak_" \o data_type, data_type \o "_smoothness"}
       ELSE /\ log_report' = Append(log_report, NotAvailable(label))
            /\ UNCHANGED defined
    /\ pc' = next
    /\ ReportFrame

\* lines 239-253
PeakBoost ==
    PeakSection(N_BoostPressure, "Boost Pressure", "Peak Boost Pressure",
                "Boost Smoothness", "boost", "peak_boost", "boost_curve")

\* lines 255-270: iloc[0] raises IndexError on an empty window; NaN compares false
BoostCurve ==
    /\ pc = "boost_curve"
    /\ IF HasColumn(wot_data, N_BoostPressure)
       THEN LET cells == Column(wot_data, N_BoostPressure)
                first == cells[1]
                last  == cells[Len(cells)]
            IN IF Len(cells) = 0
               THEN log_report' = Append(log_report, AnalysisError("Boost Curve Description"))
               ELSE log_report' = Append(log_report,
                        Entry("Boost Curve Description", "value",
                              IF IsNum(first) /\ IsNum(last) /\ last.val > first.val
                              THEN "increases"
                              ELSE IF IsNum(first) /\ IsNum(last) /\ last.val < first.val
                              THEN "decreases" ELSE "stable",
                              <<first, last>>))
       ELSE log_report' = Append(log_report, NotAvailable("Boost Curve Description"))
    /\ pc' = "peak_timing"
    /\ UNCHANGED defined
    /\ ReportFrame

\* lines 272-286
PeakTiming ==
    PeakSection(N_IgnitionTiming, "Ignition Timing", "Peak Ignition Timing",
                "Timing Smoothness", "timing", "peak_timing", "fuel_pressure")

\* lines 288-319
FuelPressureDrops ==
    /\ pc = "fuel_pressure"
    /\ IF HasColumn(wot_data, N_FuelRailPressurePsi) /\ HasColumn(wot_data, N_TargetRailPressure)
       THEN /\ log_report' = Append(log_report,
                 RuleEntry("Fuel Pressure Drops",
                     FilterRows(wot_data,
                         FuelPressureMask(Column(wot_data, N_FuelRailPressurePsi),
                                          Column(wot_data, N_TargetRailPressure))),
                     "No significant drops detected."))
            /\ defined' = defined \cup {"fuel_pressure_issue"}
       ELSE /\ log_report' = Append(log_report, NotAvailable("Fuel Pressure Drops"))
            /\ UNCHANGED defined
    /\ pc' = "boost_fluct"
    /\ ReportFrame

\* lines 321-349
BoostFluctuations ==
    /\ pc = "boost_fluct"
    /\ IF HasColumn(wot_data, N_BoostPressure)
       THEN /\ log_report' = Append(log_report,
                 RuleEntry("Boost Pressure Fluctuations",
                     FilterRows(wot_data,
                         BoostFluctuationMask(Column(wot_data, N_BoostPressure))),
                     "No significant fluctuations detected."))
            /\ defined' = defined \cup {"boost_fluctuations"}
       ELSE /\ log_report' = Append(log_report, NotAvailable("Boost Pressure Fluctuations"))
            /\ UNCHANGED defined
    /\ pc' = "neg_timing"
    /\ ReportFrame

\* lines 351-379
NegativeTiming ==
    /\ pc = "neg_timing"
    /\ IF HasColumn(wot_data, N_IgnitionTiming)
       THEN /\ log_report' = Append(log_report,
                 RuleEntry("Negative Timing Deviations",
                     FilterRows(wot_data,
                         NegativeTimingMask(Column(wot_data, N_IgnitionTiming))),
                     "No negative timing detected."))
            /\ defined' = defined \cup {"negative_timing"}
       ELSE /\ log_report' = Append(log_report, NotAvailable("Negative Timing Deviations"))
            /\ UNCHANGED defined
    /\ pc' = "wastegate"
    /\ ReportFrame

\* lines 381-434: the wastegate at 0%, then its fluctuations
WastegateAnalysis ==
    /\ pc = "wastegate"
    /\ IF HasColumn(wot_data, N_WastegateValvePosition)
       THEN LET cells == Column(wot_data, N_WastegateValvePosition) IN
            /\ log_report' = log_report \o
                 << RuleEntry("Wastegate at 0%",
                        FilterRows(wot_data, WastegateZeroMask(cells)),
                        "No instances detected."),
                    RuleEntry("Wastegate Valve Fluctuations",
                        FilterRows(wot_data, WastegateFluctuationMask(cells)),
                        "No significant fluctuations detected.") >>
            /\ defined' = defined \cup {"wastegate_zero", "wastegate_fluctuations"}
       ELSE /\ log_report' = Append(log_report, NotAvailable("Wastegate Valve Analysis"))
            /\ UNCHANGED defined
    /\ pc' = "summary"
    /\ ReportFrame

Value(text, value) == [text |-> text, value |-> value]
NotApplicable == Value("N/A", NaN)
Count(mask) == Value("count", Num(Cardinality({r \in 1..Len(mask) : mask[r]})))

\* lines 452-461: the values of the summary table, in order
SummaryValues ==
    LET has(name) == HasColumn(wot_data, name)
        boost  == Column(wot_data, N_BoostPressure)
        timing == Column(wot_data, N_IgnitionTiming)
        wg     == Column(wot_data, N_WastegateValvePosition)
    IN << IF has(N_BoostPressure) THEN Value("psi", SeriesMax(boost)) ELSE NotApplicable,
          IF has(N_IgnitionTiming) THEN Value("degrees", SeriesMax(timing)) ELSE NotApplicable,
          IF has(N_BoostPressure)
          THEN Value(get_smoothness_score(SeriesStd(boost), "boost"), NaN) ELSE NotApplicable,
          IF has(N_IgnitionTiming)
          THEN Value(get_smoothness_score(SeriesStd(timing), "timing"), NaN) ELSE NotApplicable,
          IF has(N_FuelRailPressurePsi) /\ has(N_TargetRailPressure)
          THEN Count(FuelPressureMask(Column(wot_data, N_FuelRailPressurePsi),
                                      Column(wot_data, N_TargetRailPressure)))
          ELSE NotApplicable,
          IF has(N_BoostPressure) THEN Count(BoostFluctuationMask(boost)) ELSE NotApplicable,
          IF has(N_WastegateValvePosition) THEN Count(WastegateZeroMask(wg)) ELSE NotApplicable,
          IF has(N_WastegateValvePosition) THEN Count(WastegateFluctuationMask(wg))
          ELSE NotApplicable >>

\* lines 436-528: the report is shown, the summary table is built and the last
\* plot drawn.  boost_smoothness (line 455) and timing_smoothness (line 456) are
\* unset when idxmax raised in their section: reading them raises NameError
Summary ==
    /\ pc = "summary"
    /\ IF HasColumn(wot_data, N_BoostPressure) /\ "boost_smoothness" \notin defined
       THEN Raise(455) /\ UNCHANGED summary
       ELSE IF HasColumn(wot_data, N_IgnitionTiming) /\ "timing_smoothness" \notin defined
       THEN Raise(456) /\ UNCHANGED summary
       ELSE /\ summary' = SummaryValues
            /\ pc' = "done"
            /\ UNCHANGED raised
    /\ UNCHANGED <<data, column_mapping, missing_fields, data_standardized, wot_data,
                   defined, errors, log_report>>

NextReport ==
    \/ PeakBoost
    \/ BoostCurve
    \/ PeakTiming
    \/ FuelPressureDrops
    \/ BoostFluctuations
    \/ NegativeTiming
    \/ WastegateAnalysis
    \/ Summary

(***************************************************************************)
(* The log report as a function of the analysis window: the script at line *)
(* 233 with a window wot_data as lines 96-159 leave it (columns under      *)
(* their standardized names, every cell a number or NaN).                  *)
(***************************************************************************)
MaxWin == 4     \* rows of a window

BoostValues == {Num(10 * Scale), Num(13 * Scale), Num(14 * Scale), NaN}

TimeColumn(n) == [name |-> N_Time, cells |-> [r \in 1..n |-> Num(r * Scale)]]

BoostWindows ==
    UNION { { [cols  |-> <<TimeColumn(n), [name |-> N_BoostPressure, cells |-> b]>>,
               index |-> [r \in 1..n |-> r - 1]] : b \in [1..n -> BoostValues] }
            : n \in 0..MaxWin }

\* two rows of each further channel
ChannelCells(name) ==
    CASE name = N_IgnitionTiming -> << Num(0 - 1 * Scale), Num(5 * Scale) >>
      [] name = N_FuelRailPressurePsi ->
            << Num(TimesPsiPerBar(10 * Scale)), Num(TimesPsiPerBar(10 * Scale)) >>
      [] name = N_TargetRailPressure -> << Num(95 * Scale), Num(96 * Scale) >>
      [] name = N_WastegateValvePosition -> << Num(0), Num(6 * Scale) >>
      [] OTHER -> << Num(10 * Scale), Num(14 * Scale) >>

FurtherChannels ==
    << N_IgnitionTiming, N_FuelRailPressurePsi, N_TargetRailPressure,
       N_WastegateValvePosition >>

ChannelWindows ==
    { [cols  |-> <<TimeColumn(n), [name |-> N_BoostPressure,
                                   cells |-> SubSeq(ChannelCells(N_BoostPressure), 1, n)]>>
                 \o [i \in 1..Len(chosen) |->
                        [name |-> chosen[i], cells |-> SubSeq(ChannelCells(chosen[i]), 1, n)]],
       index |-> [r \in 1..n |-> r - 1]] :
      n \in {0, 2},
      chosen \in {SelectSeq(FurtherChannels, LAMBDA name : name \in pick) :
                    pick \in SUBSET {FurtherChannels[i] : i \in 1..Len(FurtherChannels)}} }

\* wastegate positions at and around 0% and 1%
WastegateValues == {Num(0), Num(Scale \div 2), Num(1 * Scale), NaN}

WastegateWindows ==
    UNION { { [cols  |-> <<TimeColumn(n),
                           [name |-> N_BoostPressure,
                            cells |-> [r \in 1..n |-> Num(10 * Scale)]],
                           [name |-> N_WastegateValvePosition, cells |-> w]>>,
               index |-> [r \in 1..n |-> r - 1]] : w \in [1..n -> WastegateValues] }
            : n \in 0..MaxWin }

\* steps d of a three-row ramp x, x + d, x + 2d, whose sample standard deviation
\* is d exactly: at, just below and above each threshold of lines 71-75 and at
\* 0.5 and 1.5
Steps ==
    { 0, (49 * Scale) \div 100, Scale \div 2, (99 * Scale) \div 100, 1 * Scale,
      (3 * Scale) \div 2, (299 * Scale) \div 100, 3 * Scale,
      (499 * Scale) \div 100, 5 * Scale, 6 * Scale }

Ramp(start, d) == << Num(start), Num(start + d), Num(start + 2 * d) >>

SmoothnessWindows ==
    { [cols  |-> <<TimeColumn(3),
                   [name |-> N_BoostPressure, cells |-> Ramp(10 * Scale, d)],
                   [name |-> N_IgnitionTiming, cells |-> Ramp(1 * Scale, e)]>>,
       index |-> [r \in 1..3 |-> r - 1]] : d \in Steps, e \in Steps }

ReportWindows ==
    BoostWindows \cup ChannelWindows \cup WastegateWindows \cup SmoothnessWindows

InitReport ==
    /\ pc = "peak_boost"
    /\ wot_data \in ReportWindows
    /\ data = wot_data
    /\ data_standardized = wot_data
    /\ column_mapping = map_columns(ColumnNames(wot_data))
    /\ missing_fields = <<>>
    /\ defined = {"data", "column_mapping", "missing_fields", "data_standardized",
                  "wot_data"}
    /\ errors = <<>>
    /\ raised = 0
    /\ log_report = <<>>
    /\ summary = <<>>

SpecReport == InitReport /\ [][NextReport]_vars

(***************************************************************************)
(* Properties.                                                             *)
(***************************************************************************)
Mapped == pc \notin {"idle", "loaded", "read_error"}    \* map_columns has run
Unmapped(key) == column_mapping[key] = None
PassedEssentialGate == Mapped /\ pc \notin {"mapped", "missing_essential"}
PassedBothGates ==
    PassedEssentialGate /\ "wot_data" \in defined /\ pc \notin {"time_gate", "time_missing"}
Ended == pc \in {"missing_essential", "time_missing", "aborted", "done"}

\* C1: when Time or BoostPressure is unmapped the run stops at the gate with one
\* error naming exactly the unmapped essential keys ("Time", "Boost Pressure",
\* or "Time, Boost Pressure") and produces no canonical table, window, report or
\* summary; when both are mapped that error is never raised.
C1_EssentialGate ==
    Mapped =>
        LET text == IF Unmapped("time") /\ Unmapped("boost_pressure")
                    THEN N_Time \o <<",", " ">> \o N_BoostPressure
                    ELSE IF Unmapped("time") THEN N_Time ELSE N_BoostPressure
        IN IF Unmapped("time") \/ Unmapped("boost_pressure")
           THEN /\ pc \in {"mapped", "missing_essential"}
                /\ pc = "missing_essential" => errors = <<[line |-> 114, text |-> text]>>
                /\ data_standardized = NoFrame /\ wot_data = NoFrame
                /\ {"data_standardized", "wot_data"} \cap defined = {}
                /\ log_report = <<>> /\ summary = <<>>
           ELSE /\ pc # "missing_essential"
                /\ \A i \in 1..Len(errors) : errors[i].line # 114

C1_Witness ==
    /\ pc = "missing_essential"
    /\ Unmapped("time") /\ Unmapped("boost_pressure")
    /\ errors[1].text = N_Time \o <<",", " ">> \o N_BoostPressure

\* the columns, in file order, that map_columns assigns to the key
ColumnsOfKey(key) ==
    SelectSeq(ColumnNames(data), LAMBDA name : KeyOf(name) = key)

\* C2: when several headers satisfy the predicate of one key, the mapping holds
\* the first of them in file order.
C2_FirstMatchWins ==
    (Mapped /\ pc = "mapped") =>
        \A key \in Keys :
            Len(ColumnsOfKey(key)) >= 2 => column_mapping[key] = ColumnsOfKey(key)[1]

\* C3: a header that is a variant of "Boost Pressure" (blanks around it, letter
\* case, underscore or no separator, parenthesized unit) is mapped to the
\* boost_pressure key (the mapping holds it unless a later such header replaced
\* it) and to no other key.
C3_BoostVariants ==
    Mapped =>
        \A i \in 1..Len(data.cols) :
            data.cols[i].name \in StrippedBoostVariants =>
                /\ \A key \in Keys \ {"boost_pressure"} :
                      column_mapping[key] # data.cols[i].name
                /\ column_mapping["boost_pressure"] \in StrippedBoostVariants
                /\ (\A j \in (i+1)..Len(data.cols) :
                        data.cols[j].name \notin StrippedBoostVariants)
                   => column_mapping["boost_pressure"] = data.cols[i].name

UpperUnderscoreKpa ==
    <<"B","O","O","S","T","_","P","R","E","S","S","U","R","E","(","k","P","a",")">>

C3_Witness ==
    /\ pc = "mapped"
    /\ \E i \in 1..Len(data.cols) : data.cols[i].name = UpperUnderscoreKpa
    /\ column_mapping["boost_pressure"] = UpperUnderscoreKpa

\* the row of data_standardized that carries index label lab (labels are 0..n-1)
RowOfLabel(lab) == lab + 1

\* a window cell equals the table's cell, or is the NaN line 159 coerced a text to
SameCell(w, d) == w = d \/ (d.kind = "txt" /\ w = NaN)

\* the window's rows are exactly the table's rows labelled `labels`, in that order
WindowIsRows(labels) ==
    /\ wot_data.index = labels
    /\ ColumnNames(wot_data) = ColumnNames(data_standardized)
    /\ \A c \in 1..Len(wot_data.cols) : \A k \in 1..Len(labels) :
          SameCell(wot_data.cols[c].cells[k],
                   data_standardized.cols[c].cells[RowOfLabel(labels[k])])

\* C4: with the accelerator channel mapped the window is exactly the rows whose
\* Accelerator Position is strictly above 95, in their original order; without
\* it the window is every row of the table.
C4_WindowSelector ==
    "wot_data" \in defined =>
        IF ~Unmapped("accelerator_position")
        THEN LET acc == Column(data_standardized, N_AcceleratorPosition) IN
             WindowIsRows(SelectSeq(data_standardized.index,
                 LAMBDA lab : /\ acc[RowOfLabel(lab)].kind = "num"
                              /\ acc[RowOfLabel(lab)].val > 95 * Scale))
        ELSE WindowIsRows(data_standardized.index)

C4_Witness ==
    /\ "wot_data" \in defined
    /\ ~Unmapped("accelerator_position")
    /\ \E r \in 1..NRows(data_standardized) :
          Column(data_standardized, N_AcceleratorPosition)[r] = Num(95 * Scale)
    /\ NRows(wot_data) >= 1
    /\ NRows(wot_data) < NRows(data_standardized)

\* C5: the window is sorted by Time ascending.
C5_WindowSortedByTime ==
    ("wot_data" \in defined /\ Cardinality(Positions(wot_data, N_Time)) = 1) =>
        \A r \in 1..(NRows(wot_data) - 1) :
            Times(wot_data)[r].val <= Times(wot_data)[r+1].val

\* C6: the canonical table holds at most one column of each name.
C6_UniqueColumnNames ==
    "data_standardized" \in defined =>
        \A i, j \in 1..Len(data_standardized.cols) :
            data_standardized.cols[i].name = data_standardized.cols[j].name => i = j

\* C7: a run on a parsed file ends as the missing-essential-column failure, as
\* the Time-column-missing failure, or complete with the report and the summary;
\* no run that passed both gates stops part-way.
C7_RunOutcome ==
    Ended =>
        \/ pc = "missing_essential" /\ errors # <<>> /\ log_report = <<>>
        \/ pc = "time_missing" /\ errors # <<>> /\ log_report = <<>>
        \/ pc = "done" /\ log_report # <<>> /\ summary # <<>>

\* the outcomes the report holds under any of the labels
OutcomesOf(labels) ==
    {log_report[i].outcome : i \in {j \in 1..Len(log_report) : log_report[j].label \in labels}}

NoneTrue(mask) == \A r \in 1..Len(mask) : ~mask[r]

\* the rule detectors of the report: the labels their outcome is reported under,
\* the columns they need, and whether no row of the window satisfies their rule
RuleDetectors ==
    LET col(name) == Column(wot_data, name)
        has(names) == \A name \in names : HasColumn(wot_data, name)
    IN
    { [labels   |-> {"Fuel Pressure Drops"},
       requires |-> {N_FuelRailPressurePsi, N_TargetRailPressure},
       silent   |-> /\ has({N_FuelRailPressurePsi, N_TargetRailPressure})
                    /\ NoneTrue(FuelPressureMask(col(N_FuelRailPressurePsi),
                                                 col(N_TargetRailPressure)))],
      [labels   |-> {"Boost Pressure Fluctuations"},
       requires |-> {N_BoostPressure},
       silent   |-> /\ has({N_BoostPressure})
                    /\ NoneTrue(BoostFluctuationMask(col(N_BoostPressure)))],
      [labels   |-> {"Negative Timing Deviations"},
       requires |-> {N_IgnitionTiming},
       silent   |-> /\ has({N_IgnitionTiming})
                    /\ NoneTrue(NegativeTimingMask(col(N_IgnitionTiming)))],
      [labels   |-> {"Wastegate at 0%", "Wastegate Valve Analysis"},
       requires |-> {N_WastegateValvePosition},
       silent   |-> /\ has({N_WastegateValvePosition})
                    /\ NoneTrue(WastegateZeroMask(col(N_WastegateValvePosition)))],
      [labels   |-> {"Wastegate Valve Fluctuations", "Wastegate Valve Analysis"},
       requires |-> {N_WastegateValvePosition},
       silent   |-> /\ has({N_WastegateValvePosition})
                    /\ NoneTrue(WastegateFluctuationMask(col(N_WastegateValvePosition)))] }

\* C8: in a run that passed the gates, a detector whose channel is absent reports
\* "not available", one whose channels are present and whose rule no row
\* satisfies reports "no issue detected", never both, and the run is not aborted.
C8_DetectorOutcomes ==
    (PassedBothGates /\ Ended) =>
        /\ pc # "aborted"
        /\ \A d \in RuleDetectors :
              LET present == \A name \in d.requires : HasColumn(wot_data, name) IN
              /\ ~present => OutcomesOf(d.labels) = {"not_available"}
              /\ (present /\ d.silent) => OutcomesOf(d.labels) = {"no_issue"}
              /\ ~({"not_available", "no_issue"} \subseteq OutcomesOf(d.labels))

\* the detectors of section 4.6, by the labels their outcome is reported under
ListedDetectors ==
    { {"Boost Pressure Fluctuations"},
      {"Negative Timing Deviations"},
      {"Wastegate at 0%", "Wastegate Valve Analysis"},
      {"Wastegate Sustained Low"},
      {"Wastegate Valve Fluctuations", "Wastegate Valve Analysis"},
      {"Fuel Pressure Drops"},
      {"Timing Anomalies"},
      {"Peak Boost Pressure", "Boost Pressure"},
      {"Peak Ignition Timing", "Ignition Timing"},
      {"Boost Smoothness", "Boost Pressure"},
      {"Timing Smoothness", "Ignition Timing"},
      {"Boost Curve Description"} }

\* C9: a run that passed both gates holds one outcome for each listed detector.
C9_DetectorCompleteness ==
    (PassedBothGates /\ Ended) =>
        \A labels \in ListedDetectors : OutcomesOf(labels) # {}

\* the entry of the report under the label
EntryOf(label) ==
    log_report[CHOOSE i \in 1..Len(log_report) : log_report[i].label = label]

RowsWhere(name, Rule(_)) ==
    {r \in 1..NRows(wot_data) :
        /\ Column(wot_data, name)[r].kind = "num"
        /\ Rule(Column(wot_data, name)[r].val)}

\* the entry reports exactly the times of the rows, and "detected" when any
ReportsRows(entry, rows) ==
    /\ Len(entry.values) = Cardinality(rows)
    /\ \A r \in 1..NRows(wot_data) :
          (\E k \in 1..Len(entry.values) : entry.values[k] = Times(wot_data)[r])
          <=> r \in rows
    /\ entry.outcome = IF rows = {} THEN "no_issue" ELSE "detected"

Bucket(s, t1, t2, t3) ==
    IF s < t1 THEN "Very Smooth"
    ELSE IF s < t2 THEN "Smooth"
    ELSE IF s < t3 THEN "Somewhat Smooth"
    ELSE "Not Smooth"

\* the smoothness entries of the report whose score is a number
ScoredEntries ==
    {i \in 1..Len(log_report) :
        /\ log_report[i].label \in {"Boost Smoothness", "Timing Smoothness"}
        /\ log_report[i].values[1].kind = "num"}

FuelDeviationRows ==
    LET psi    == Column(data, N_FuelRailPressurePsi)
        target == Column(data, column_mapping["target_rail_pressure"])
    IN {k \in 1..NRows(wot_data) :
          LET row == RowOfLabel(wot_data.index[k]) IN
          /\ psi[row].kind = "num" /\ target[row].kind = "num"
          /\ \/ psi[row].val - target[row].val > 50 * Scale
             \/ target[row].val - psi[row].val > 50 * Scale}

\* C13: with the fuel rail pressure and the target rail pressure both mapped, a
\* row of the window is flagged exactly when |bar reading * 14.5038 - Target
\* Rail Pressure| > 50, the comparison using the psi-converted series; with
\* either of them unmapped the detector reports "not available".
C13_FuelPressureDeviation ==
    (PassedBothGates /\ Ended) =>
        IF ~Unmapped("fuel_rail_pressure_bar") /\ ~Unmapped("target_rail_pressure")
        THEN /\ OutcomesOf({"Fuel Pressure Drops"}) # {}
             /\ OutcomesOf({"Fuel Pressure Drops"}) \subseteq {"detected", "no_issue"}
             /\ ReportsRows(EntryOf("Fuel Pressure Drops"), FuelDeviationRows)
        ELSE OutcomesOf({"Fuel Pressure Drops"}) = {"not_available"}

\* C14: once the essential-column gate has passed, the canonical table and the
\* window hold a column named "Time", and the Time gate never fails.
C14_TimeGateUnreachable ==
    PassedEssentialGate =>
        /\ pc # "time_missing"
        /\ \A i \in 1..Len(errors) : errors[i].line # 154
        /\ "data_standardized" \in defined => HasColumn(data_standardized, N_Time)
        /\ "wot_data" \in defined => HasColumn(wot_data, N_Time)

C14_Witness ==
    /\ pc = "coerce"
    /\ column_mapping["time"] = H_TimeS
    /\ ~HasColumn(data, N_Time)
    /\ HasColumn(wot_data, N_Time)

====
